---- MODULE Spec2Model ----
(***************************************************************************)
(* Model of the VoltTyphoonTimeline playback engine                        *)
(* (volt-typhoon-timeline.js): the playback clock, the stage resolver, the *)
(* event gate, the packet/alert timers and restart(); of the simpler       *)
(* AttackTimeline engine (timeline.js); and of the dataset loader          *)
(* (data-loader.js).                                                       *)
(*                                                                         *)
(* Times are integers in milliseconds.  Simulated time (currentTime) is an *)
(* offset from startTime; real time is kept relative: every pending        *)
(* setTimeout carries the milliseconds left until it is due (rem).         *)
(***************************************************************************)
EXTENDS Integers, Sequences, FiniteSets, Bags, TLC

VARIABLES
  json,                    \* history: the document that loadDataset fetched
  data,                    \* this.data: the event list, sorted by timestamp
  currentTime,             \* this.currentTime (simulated ms since startTime)
  playbackSpeed,           \* this.playbackSpeed
  isPlaying,               \* this.isPlaying
  currentStage,            \* this.currentStage (0-based index into stages)
  lastEventProcessedTime,  \* this.lastEventProcessedTime (0 = unset)
  lastProcessedEventType,  \* this.lastProcessedEventType ("null" = unset)
  processed,               \* event.processed, per event of data
  activeFlows,             \* this.activeFlows
  cveExplained,            \* this.cveExplained
  criticalAccessShown,     \* this.criticalAccessShown
  ntdsShown,               \* this.ntdsShown
  otShown,                 \* this.otShown
  lastFollowedStage,       \* this.lastFollowedStage (-1 = undefined)
  gsapPaused,              \* gsap.globalTimeline is paused
  timers,                  \* pending setTimeout callbacks, in creation order
  infoBoxes,               \* alert overlays present in the document
  tweens,                  \* gsap timelines of packets, not yet finished
  effects,                 \* hop pulses, impact effects, compromise marks
  camera,                  \* last camera move issued
  run,                     \* history: number of restart() calls so far
  handed,                  \* history: createPacketFlow calls per event, this run
  calls,                   \* history: calls of the control surface so far
  sinceDispatch,           \* history: real ms since the last dispatch of this
                           \* run, capped at minEventInterval
  lastOp                   \* history: the operation of the last step

vars == <<json, data, currentTime, playbackSpeed, isPlaying, currentStage,
          lastEventProcessedTime, lastProcessedEventType, processed,
          activeFlows, cveExplained, criticalAccessShown, ntdsShown, otShown,
          lastFollowedStage, gsapPaused, timers, infoBoxes, tweens, effects,
          camera, run, handed, calls, sinceDispatch, lastOp>>

----------------------------------------------------------------------------
(* Bounds of the model *)

MaxCalls == 6        \* update, togglePlayback, setSpeed and restart calls explored
BaseTime == 1000     \* timestamp of the first event of every dataset
MaxRestarts == 1     \* restart() calls explored in unattended playback
MaxFrameAdvance == 3600000  \* largest dt * playbackSpeed of a long frame

(* Frame deltas (real ms) and speed buttons explored *)
DtSet == {200, 1200}
Speeds == {1, 60}

----------------------------------------------------------------------------
(* Program constants *)

HourMs == 3600 * 1000
duration == 72 * 3600 * 1000
minEventInterval == 500
SimScale == 360
FlowLifetime == 3000
PacketStagger == 200
ZeroDayDuration == 7000
NtdsDuration == 6000
CriticalInfraDuration == 8000
ExfilDuration == 6000
CriticalAccessDuration == 7000
CriticalAccessReset == 10000
OtReset == 15000
DirectDuration == 4000
HopDuration == 1500
HopPause == 300
FollowDelay == 2000

\* (stage windows with the second one starting an hour late)
stagesWithGap == <<[start |-> 0,  end |-> 7],
                   [start |-> 8,  end |-> 24],
                   [start |-> 24, end |-> 48],
                   [start |-> 48, end |-> 60],
                   [start |-> 60, end |-> 72]>>

stages == <<[start |-> 0,  end |-> 7],
            [start |-> 7,  end |-> 24],
            [start |-> 24, end |-> 48],
            [start |-> 48, end |-> 60],
            [start |-> 60, end |-> 72]>>

----------------------------------------------------------------------------
(* Node identifiers are strings, kept as sequences of character codes, so  *)
(* that startsWith and split/join act on them as they do in the code.      *)

RECURSIVE Digits(_)
Digits(n) ==
  IF n < 10 THEN <<48 + n>> ELSE Digits(n \div 10) \o <<48 + (n % 10)>>

\* octets.join('.')
RECURSIVE Join(_)
Join(octets) ==
  IF Len(octets) = 1 THEN Digits(octets[1])
  ELSE Join(SubSeq(octets, 1, Len(octets) - 1)) \o <<46>>
         \o Digits(octets[Len(octets)])

IP(a, b, c, d) == Join(<<a, b, c, d>>)

StartsWith(str, prefix) ==
  Len(prefix) <= Len(str) /\ SubSeq(str, 1, Len(prefix)) = prefix

\* the nodes of createNetworkInfrastructure, in the order they enter nodeMap
NodeRegistry ==
  << <<45, 76, 128, 0>>,    <<103, 56, 54, 0>>,    <<203, 119, 88, 0>>,
     <<202, 181, 24, 0>>,
     <<192, 168, 100, 10>>, <<192, 168, 100, 40>>, <<192, 168, 100, 50>>,
     <<192, 168, 100, 20>>, <<192, 168, 100, 30>>, <<192, 168, 100, 60>>,
     <<10, 1, 1, 10>>, <<10, 1, 1, 20>>, <<10, 1, 1, 30>>, <<10, 1, 1, 40>>,
     <<10, 1, 1, 50>> >>

\* the keys of nodeMap, and nodeIp.split('.').slice(0, 3).join('.')
NodeKeys == [k \in 1..Len(NodeRegistry) |-> Join(NodeRegistry[k])]

NodePrefixes ==
  [k \in 1..Len(NodeRegistry) |-> Join(SubSeq(NodeRegistry[k], 1, 3))]

\* nodeMap.get(ip): the index of the node with this key, 0 if there is none
NodeOf(ip) ==
  IF \E k \in 1..Len(NodeKeys) : NodeKeys[k] = ip
    THEN CHOOSE k \in 1..Len(NodeKeys) : NodeKeys[k] = ip
    ELSE 0

\* a position is that of a node's mesh, or the random default vector
Null == <<"null", 0>>

DefaultPosition == <<"random", 0>>

GetNodePosition(ip) ==
  LET partial == {k \in 1..Len(NodePrefixes) :
                    StartsWith(ip, NodePrefixes[k])}
  IN IF NodeOf(ip) # 0 THEN <<"node", NodeOf(ip)>>
     ELSE IF partial # {}
       THEN <<"node", CHOOSE k \in partial : \A j \in partial : k <= j>>
     ELSE DefaultPosition

----------------------------------------------------------------------------
(* Event datasets.  Each is sorted by timestamp, as the constructor leaves *)
(* this.data, and its first event is at BaseTime.                          *)

Ev(ts, type, cat, stage, sev, ok, ntds) ==
  [timestamp |-> BaseTime + ts, attack_type |-> type, category |-> cat,
   stage |-> stage, severity |-> sev, success |-> ok, ntds |-> ntds,
   source_ip |-> IP(45, 76, 128, 0),
   destination_ip |-> IP(192, 168, 100, 10),
   proxy_chain |-> <<>>]

Routed(e, src, dst, chain) ==
  [e EXCEPT !.source_ip = src, !.destination_ip = dst, !.proxy_chain = chain]

DataScan ==
  << Ev(0,   "port_scan",        "reconnaissance", 1, 3, FALSE, FALSE),
     Ev(50,  "zero_day_exploit", "exploitation",   1, 9, TRUE,  FALSE),
     Ev(100, "port_scan",        "reconnaissance", 1, 3, FALSE, FALSE) >>

DataCred ==
  << Ev(0,   "credential_harvesting", "credential_access", 2, 8, TRUE, TRUE),
     Ev(10,  "rdp_lateral_movement",  "lateral_movement",  3, 7, TRUE, FALSE) >>

DataOt ==
  << Ev(0,   "ot_system_access",       "lateral_movement", 4, 9, TRUE, FALSE),
     Ev(10,  "multi_hop_exfiltration", "exfiltration",     5, 9, TRUE, FALSE),
     Ev(27000000, "log_deletion",      "defense_evasion",  6, 6, TRUE, FALSE) >>

Datasets == {DataScan, DataCred, DataOt}

(* Datasets with two events eligible for the same alert kind *)

DataChunks ==
  << Ev(0,   "ntds_extraction", "credential_access", 4, 10, TRUE, FALSE),
     Ev(10,  "ntds_extraction", "credential_access", 4, 10, TRUE, FALSE) >>

DataExfil ==
  << Ev(0,   "multi_hop_exfiltration", "exfiltration", 5, 9, TRUE, FALSE),
     Ev(10,  "multi_hop_exfiltration", "exfiltration", 5, 9, TRUE, FALSE) >>

AlertDatasets == {DataChunks, DataExfil}

(* Datasets with routes: a proxy chain [A, B] to a destination C and a   *)
(* chain that passes through the destination; batches of several packets; *)
(* identifiers that are not keys of the node registry.                     *)

DataHops ==
  << Routed(Ev(0, "web_shell_deployment", "persistence", 1, 9, TRUE, FALSE),
            IP(45, 76, 128, 0), IP(192, 168, 100, 10),
            <<IP(203, 119, 88, 0), IP(202, 181, 24, 0)>>),
     Routed(Ev(50, "port_scan", "reconnaissance", 1, 3, TRUE, FALSE),
            IP(45, 76, 128, 0), IP(192, 168, 100, 30),
            <<IP(192, 168, 100, 30), IP(202, 181, 24, 0)>>) >>

DataBatch ==
  << Routed(Ev(0, "credential_harvesting", "credential_access", 2, 8, TRUE,
               FALSE),
            IP(192, 168, 100, 10), IP(192, 168, 100, 30), <<>>) >>

DataUnknown ==
  << Routed(Ev(0, "port_scan", "reconnaissance", 1, 3, FALSE, FALSE),
            IP(8, 8, 8, 8), IP(192, 168, 100, 10), <<>>),
     Routed(Ev(50, "rdp_lateral_movement", "credential_access", 3, 7, TRUE,
               FALSE),
            IP(192, 168, 100, 40), IP(10, 1, 10, 7), <<>>) >>

RouteDatasets == {DataHops, DataBatch, DataUnknown}

(* A dataset with one event in each of the first three stages, numbered  *)
(* from 1 as the generator numbers them                                    *)

DataBacklog ==
  << Ev(0,        "port_scan",            "reconnaissance",   1, 3, FALSE,
        FALSE),
     Ev(28800000, "lotl_discovery",       "discovery",        2, 5, TRUE,
        FALSE),
     Ev(90000000, "rdp_lateral_movement", "lateral_movement", 3, 7, TRUE,
        FALSE) >>

(* A dataset whose last event shows the exfiltration alert *)

DataLateAlert ==
  << Ev(0,         "port_scan",              "reconnaissance", 1, 3, FALSE,
        FALSE),
     Ev(180000000, "multi_hop_exfiltration", "exfiltration",   5, 9, TRUE,
        FALSE) >>

(* A dataset whose last two events are due in the last minutes of the    *)
(* timeline                                                                *)

DataTail ==
  << Ev(0,         "port_scan",    "reconnaissance",  1, 3, FALSE, FALSE),
     Ev(259000000, "log_deletion", "defense_evasion", 6, 6, TRUE,  FALSE),
     Ev(259100000, "log_deletion", "defense_evasion", 6, 6, TRUE,  FALSE) >>

(* A dataset whose last event is due in the last minutes of the timeline *)

DataLate ==
  << Ev(0,         "port_scan",    "reconnaissance",  1, 3, FALSE, FALSE),
     Ev(259000000, "log_deletion", "defense_evasion", 6, 6, TRUE,  FALSE) >>

(* A dataset whose events show no alert and send one packet each *)

DataQuiet ==
  << Ev(0,        "port_scan",      "reconnaissance", 1, 3, FALSE, FALSE),
     Ev(28800000, "web_shell_deployment", "persistence", 1, 9, TRUE, FALSE) >>

----------------------------------------------------------------------------
(* The engine's fields as one record, so that a handler and the handlers   *)
(* it calls compose as functions from state to state.                      *)

St ==
  [currentTime |-> currentTime, playbackSpeed |-> playbackSpeed,
   isPlaying |-> isPlaying, currentStage |-> currentStage,
   lastEventProcessedTime |-> lastEventProcessedTime,
   lastProcessedEventType |-> lastProcessedEventType,
   processed |-> processed, activeFlows |-> activeFlows,
   cveExplained |-> cveExplained, criticalAccessShown |-> criticalAccessShown,
   ntdsShown |-> ntdsShown, otShown |-> otShown,
   lastFollowedStage |-> lastFollowedStage, gsapPaused |-> gsapPaused,
   timers |-> timers, infoBoxes |-> infoBoxes, tweens |-> tweens,
   effects |-> effects, camera |-> camera,
   run |-> run, handed |-> handed,
   log |-> <<>>, hooks |-> <<>>]

\* the fields of record s become the next state
Apply(s) ==
  \E t \in {s} :
    /\ currentTime' = t.currentTime
    /\ playbackSpeed' = t.playbackSpeed
    /\ isPlaying' = t.isPlaying
    /\ currentStage' = t.currentStage
    /\ lastEventProcessedTime' = t.lastEventProcessedTime
    /\ lastProcessedEventType' = t.lastProcessedEventType
    /\ processed' = t.processed
    /\ activeFlows' = t.activeFlows
    /\ cveExplained' = t.cveExplained
    /\ criticalAccessShown' = t.criticalAccessShown
    /\ ntdsShown' = t.ntdsShown
    /\ otShown' = t.otShown
    /\ lastFollowedStage' = t.lastFollowedStage
    /\ gsapPaused' = t.gsapPaused
    /\ timers' = t.timers
    /\ infoBoxes' = t.infoBoxes
    /\ tweens' = t.tweens
    /\ effects' = t.effects
    /\ camera' = t.camera
    /\ run' = t.run
    /\ handed' = t.handed
    /\ json' = json

startTime == data[1].timestamp

----------------------------------------------------------------------------
(* setTimeout *)

Timer(delay, kind, ev, first, alert, was, r) ==
  [rem |-> delay, kind |-> kind, ev |-> ev, first |-> first,
   alert |-> alert, wasPlaying |-> was, run |-> r]

SetTimeout(s, t) == [s EXCEPT !.timers = Append(@, t)]

\* the next timer to fire: the least time left, the oldest among equals
EarliestTimer(ts) ==
  CHOOSE k \in 1..Len(ts) :
    \A j \in 1..Len(ts) :
      ts[k].rem < ts[j].rem \/ (ts[k].rem = ts[j].rem /\ k <= j)

Elapse(ts, d) == [k \in 1..Len(ts) |-> [ts[k] EXCEPT !.rem = @ - d]]

RemoveAt(q, k) == SubSeq(q, 1, k - 1) \o SubSeq(q, k + 1, Len(q))

----------------------------------------------------------------------------
(* Alerts: highlightZeroDay, highlightCriticalAccess, highlightNTDSExtraction, *)
(* highlightCriticalInfrastructure, highlightExfiltration                  *)

BoxOf(kind, ev, r) == [kind |-> kind, ev |-> ev, run |-> r]

Highlight(s, kind, ev, dur) ==
  LET wasPlaying == s.isPlaying
      s1 == [s EXCEPT !.isPlaying = FALSE,
                      !.gsapPaused = TRUE,
                      !.infoBoxes = @ \cup {BoxOf(kind, ev, s.run)}]
  IN SetTimeout(s1, Timer(dur, "dismiss", ev, FALSE, kind, wasPlaying, s.run))

\* the callback scheduled by an alert: resume if playback was on, fade the box
Dismiss(s, t) ==
  LET s1 == IF t.wasPlaying
              THEN [s EXCEPT !.isPlaying = TRUE, !.gsapPaused = FALSE]
              ELSE s
  IN [s1 EXCEPT !.infoBoxes = @ \ {BoxOf(t.alert, t.ev, t.run)}]

----------------------------------------------------------------------------
(* animateMultiHop, createSinglePacket, followAttack *)

\* a move or callback of a timeline, due so many ms after its start
Step(do, pos, due) == [do |-> do, pos |-> pos, due |-> due]

FullPath(e) ==
  LET chain == IF Len(e.proxy_chain) > 0 THEN e.proxy_chain
               ELSE <<e.source_ip>>
  IN IF \E k \in 1..Len(chain) : chain[k] = e.destination_ip
       THEN chain
       ELSE Append(chain, e.destination_ip)

\* the callbacks and moves animateMultiHop queues for hops i..Len(path)-1
\* (0-based i, as in the loop), the timeline being at ms long so far, then
\* the final callback
RECURSIVE HopSteps(_, _, _, _)
HopSteps(path, i, e, at) ==
  IF i >= Len(path)
    THEN <<Step("final", GetNodePosition(e.destination_ip), at)>>
  ELSE LET fromPos == GetNodePosition(path[i])
           toPos == GetNodePosition(path[i + 1])
           arrival == at + HopDuration
       IN IF fromPos = Null \/ toPos = Null
            THEN HopSteps(path, i + 1, e, at)
          ELSE IF i < Len(path) - 1
            THEN <<Step("to", toPos, arrival), Step("hop", toPos, arrival)>>
                   \o HopSteps(path, i + 1, e, arrival + HopPause)
          ELSE <<Step("to", toPos, arrival)>>
                 \o HopSteps(path, i + 1, e, arrival)

AnimateMultiHop(e) == HopSteps(FullPath(e), 1, e, 0)

\* what createSinglePacket hands to gsap for a packet of event e
Timeline(e) ==
  IF Len(e.proxy_chain) > 0 THEN AnimateMultiHop(e)
  ELSE <<Step("complete", GetNodePosition(e.destination_ip),
              DirectDuration)>>

\* a packet's timeline in play: pc is the next move or callback to run,
\* elapsed the time it has played, up to its length
Tween(ev, isFirst, r) ==
  LET steps == Timeline(data[ev])
  IN [ev |-> ev, first |-> isFirst, run |-> r, pc |-> 1, elapsed |-> 0,
      length |-> steps[Len(steps)].due]

\* gsap's clock: d ms pass for every timeline unless the global timeline
\* is paused
ElapseTweens(s, d) ==
  IF s.gsapPaused THEN s.tweens
  ELSE [k \in 1..Len(s.tweens) |->
          [s.tweens[k] EXCEPT
             !.elapsed = IF @ + d > s.tweens[k].length
                           THEN s.tweens[k].length ELSE @ + d]]

\* (every packet of a batch triggers the effects)
CreateSinglePacketAllFirst(s, ev, isFirst, r) ==
  [s EXCEPT
     !.activeFlows =
       Append(@, [ev |-> ev, age |-> 0, first |-> isFirst, run |-> r]),
     !.tweens = Append(@, Tween(ev, TRUE, r))]

CreateSinglePacket(s, ev, isFirst, r) ==
  [s EXCEPT
     !.activeFlows =
       Append(@, [ev |-> ev, age |-> 0, first |-> isFirst, run |-> r]),
     !.tweens = Append(@, Tween(ev, isFirst, r))]

Effect(type, t, pos) ==
  [type |-> type, ev |-> t.ev, run |-> t.run, first |-> t.first, pos |-> pos]

AddEffect(s, eff) == [s EXCEPT !.effects = @ (+) SetToBag({eff})]

\* createImpactEffect and markNodeCompromised, as the last callback of a
\* packet's timeline calls them
Impact(s, t, pos) ==
  LET e == data[t.ev]
      s1 == AddEffect(s, Effect("impact", t, pos))
  IN IF NodeOf(e.destination_ip) # 0
       THEN AddEffect(s1, Effect("compromised", t,
                                 <<"node", NodeOf(e.destination_ip)>>))
       ELSE s1

\* gsap plays the next move or callback of the k-th timeline
PlayTween(s, k) ==
  LET t == s.tweens[k]
      steps == Timeline(data[t.ev])
      st == steps[t.pc]
      s1 == IF t.pc = Len(steps)
              THEN [s EXCEPT !.tweens = RemoveAt(@, k)]
              ELSE [s EXCEPT !.tweens[k].pc = @ + 1]
  IN CASE st.do = "to" -> s1
       [] st.do = "hop" -> AddEffect(s1, Effect("hop", t, st.pos))
       [] st.do = "final" ->
            IF data[t.ev].success /\ st.pos # Null /\ t.first
              THEN Impact(s1, t, st.pos) ELSE s1
       [] st.do = "complete" ->
            IF data[t.ev].success /\ t.first
              THEN Impact(s1, t, st.pos) ELSE s1

FollowAttack(s, ev) == [s EXCEPT !.camera = <<"follow", ev>>]

----------------------------------------------------------------------------
(* createPacketFlow *)

PacketCount(e) ==
  IF e.attack_type = "lotl_discovery" \/ e.attack_type = "wmi_lateral_movement"
    THEN 3
  ELSE IF e.attack_type = "rdp_lateral_movement" THEN 2
  ELSE IF e.category = "credential_access" THEN 5
  ELSE 1

\* (the first packet created inside createPacketFlow, not by a timer)
SpawnPacketsFirstInline(s, ev, k, n) ==
  LET s1 == CreateSinglePacket(s, ev, TRUE, s.run)
  IN [s1 EXCEPT !.timers =
        @ \o [i \in 1..(n - 1) |->
                Timer(i * PacketStagger, "spawn", ev, FALSE, "none", FALSE,
                      s.run)]]

RECURSIVE SpawnPackets(_, _, _, _)
SpawnPackets(s, ev, k, n) ==
  IF k >= n THEN s
  ELSE SpawnPackets(
         SetTimeout(s, Timer(k * PacketStagger, "spawn", ev, k = 0,
                             "none", FALSE, s.run)),
         ev, k + 1, n)

CreatePacketFlow(s, ev) ==
  LET e == data[ev]
      sourcePos == GetNodePosition(e.source_ip)
      destPos == GetNodePosition(e.destination_ip)
      s0 == [s EXCEPT !.handed[ev] = @ + 1]
      s1 == IF e.category = "credential_access" /\ ~s0.criticalAccessShown
              THEN SetTimeout(
                     Highlight([s0 EXCEPT !.criticalAccessShown = TRUE],
                               "critical_access", ev, CriticalAccessDuration),
                     Timer(CriticalAccessReset, "resetCritical", ev, FALSE,
                           "none", FALSE, s0.run))
              ELSE s0
      s2 == IF e.attack_type = "credential_harvesting" /\ e.ntds
               /\ ~s1.ntdsShown
              THEN Highlight([s1 EXCEPT !.ntdsShown = TRUE],
                             "ntds", ev, NtdsDuration)
              ELSE s1
      s3 == IF e.attack_type = "ot_system_access" /\ ~s2.otShown
              THEN SetTimeout(
                     Highlight([s2 EXCEPT !.otShown = TRUE],
                               "ot", ev, CriticalInfraDuration),
                     Timer(OtReset, "resetOT", ev, FALSE, "none", FALSE,
                           s2.run))
              ELSE s2
      s4 == IF e.attack_type = "multi_hop_exfiltration" /\ e.stage = 5
              THEN Highlight(s3, "exfil", ev, ExfilDuration)
              ELSE s3
  IN IF sourcePos = Null \/ destPos = Null THEN s0
     ELSE SpawnPackets(s4, ev, 0, PacketCount(e))

----------------------------------------------------------------------------
(* processEvents *)

\* (the filter without its "!event.processed" test)
AvailableEventsIgnoringProcessed(s, currentTimestamp) ==
  SelectSeq([k \in 1..Len(data) |-> k],
            LAMBDA k : data[k].timestamp <= currentTimestamp)

\* (the filter without its timestamp test)
AvailableEventsIgnoringTime(s, currentTimestamp) ==
  SelectSeq([k \in 1..Len(data) |-> k], LAMBDA k : ~s.processed[k])

\* indices of the events that are due and not yet processed, in data order
AvailableEvents(s, currentTimestamp) ==
  SelectSeq([k \in 1..Len(data) |-> k],
            LAMBDA k : data[k].timestamp <= currentTimestamp
                       /\ ~s.processed[k])

\* (the choice without the same-type preference)
NextEventNoContinuity(s, availableEvents) ==
  LET currentStageEvents ==
        SelectSeq(availableEvents,
                  LAMBDA k : data[k].stage = s.currentStage)
  IN IF Len(currentStageEvents) > 0
       THEN currentStageEvents[1]
       ELSE availableEvents[1]

NextEvent(s, availableEvents) ==
  LET currentStageEvents ==
        SelectSeq(availableEvents,
                  LAMBDA k : data[k].stage = s.currentStage)
      sameTypeEvents ==
        SelectSeq(currentStageEvents,
                  LAMBDA k : data[k].attack_type = s.lastProcessedEventType)
  IN IF Len(currentStageEvents) > 0
       THEN IF Len(sameTypeEvents) > 0
              THEN sameTypeEvents[1]
              ELSE currentStageEvents[1]
       ELSE availableEvents[1]

MarkProcessed(s, ev) == [s EXCEPT !.processed[ev] = TRUE]

\* the part of processEvents after the event is chosen
Dispatch(s, ev, currentTimestamp) ==
  LET e == data[ev]
      s1 == [MarkProcessed(s, ev) EXCEPT
               !.lastEventProcessedTime = currentTimestamp,
               !.lastProcessedEventType = e.attack_type,
               !.log = Append(@, ev)]
      s2 == CreatePacketFlow(s1, ev)
      s3 == IF e.attack_type = "zero_day_exploit" /\ ~s2.cveExplained
              THEN Highlight([s2 EXCEPT !.cveExplained = TRUE],
                             "zero_day", ev, ZeroDayDuration)
              ELSE s2
  IN IF e.stage # s3.lastFollowedStage
        /\ (e.severity >= 9 \/ e.attack_type = "ot_system_access")
       THEN [(IF e.attack_type = "zero_day_exploit"
                THEN SetTimeout(s3, Timer(FollowDelay, "follow", ev, FALSE,
                                          "none", FALSE, s3.run))
                ELSE FollowAttack(s3, ev))
             EXCEPT !.lastFollowedStage = e.stage]
       ELSE s3

TooSoon(s, currentTimestamp) ==
  /\ s.lastEventProcessedTime # 0
  /\ currentTimestamp - s.lastEventProcessedTime < minEventInterval

\* (a gate that dispatches every due event in one call, as
\* AttackTimeline.processEvents does)
RECURSIVE DispatchAll(_, _, _)
DispatchAll(s, evs, currentTimestamp) ==
  IF Len(evs) = 0 THEN s
  ELSE DispatchAll(Dispatch(s, Head(evs), currentTimestamp), Tail(evs),
                   currentTimestamp)

ProcessEveryEvent(s, currentTimestamp) ==
  IF TooSoon(s, currentTimestamp)
    THEN s
  ELSE DispatchAll(s, AvailableEvents(s, currentTimestamp), currentTimestamp)

ProcessEvents(s, currentTimestamp) ==
  IF TooSoon(s, currentTimestamp)
    THEN s
  ELSE LET availableEvents == AvailableEvents(s, currentTimestamp)
       IN IF Len(availableEvents) = 0
            THEN s
            ELSE Dispatch(s, NextEvent(s, availableEvents),
                          currentTimestamp)

----------------------------------------------------------------------------
(* update and what it calls *)

\* stages.findIndex(s => currentHour >= s.start && currentHour < s.end)
FindStage(t) ==
  LET hits == {k \in 1..Len(stages) :
                 t >= stages[k].start * HourMs /\ t < stages[k].end * HourMs}
  IN IF hits = {} THEN -1
     ELSE (CHOOSE k \in hits : \A j \in hits : k <= j) - 1

OnStageChange(s) ==
  [s EXCEPT !.camera = <<"stage", s.currentStage>>,
            !.hooks = Append(@, s.currentStage)]

UpdateFlows(s, dt) ==
  LET aged == [k \in 1..Len(s.activeFlows) |->
                 [s.activeFlows[k] EXCEPT !.age = @ + dt]]
  IN [s EXCEPT !.activeFlows =
        SelectSeq(aged, LAMBDA f : ~(f.age > FlowLifetime))]

\* (the clock without the clamp at the end of the timeline)
AdvanceUnclamped(s, dt) ==
  [s EXCEPT !.currentTime = @ + dt * s.playbackSpeed * SimScale]

\* (the clock without the speed multiplier)
AdvanceIgnoringSpeed(s, dt) ==
  LET t == s.currentTime + dt * SimScale
  IN IF t > duration
       THEN [s EXCEPT !.currentTime = duration, !.isPlaying = FALSE]
       ELSE [s EXCEPT !.currentTime = t]

Advance(s, dt) ==
  LET t == s.currentTime + dt * s.playbackSpeed * SimScale
  IN IF t > duration
       THEN [s EXCEPT !.currentTime = duration, !.isPlaying = FALSE]
       ELSE [s EXCEPT !.currentTime = t]

\* (update without its isPlaying test)
UpdateIgnoringPause(s, dt) ==
  LET s1 == Advance(s, dt)
      newStage == FindStage(s1.currentTime)
      s2 == IF newStage # s1.currentStage /\ newStage >= 0
              THEN OnStageChange([s1 EXCEPT !.currentStage = newStage])
              ELSE s1
      s3 == ProcessEvents(s2, startTime + s2.currentTime)
  IN UpdateFlows(s3, dt)

\* (update calling the stage hook whenever a stage is resolved)
UpdateAnnouncingEveryTick(s, dt) ==
  IF ~s.isPlaying THEN s
  ELSE LET s1 == Advance(s, dt)
           newStage == FindStage(s1.currentTime)
           s2 == IF newStage >= 0
                   THEN OnStageChange([s1 EXCEPT !.currentStage = newStage])
                   ELSE s1
           s3 == ProcessEvents(s2, startTime + s2.currentTime)
       IN UpdateFlows(s3, dt)

Update(s, dt) ==
  IF ~s.isPlaying THEN s
  ELSE LET s1 == Advance(s, dt)
           newStage == FindStage(s1.currentTime)
           s2 == IF newStage # s1.currentStage /\ newStage >= 0
                   THEN OnStageChange([s1 EXCEPT !.currentStage = newStage])
                   ELSE s1
           s3 == ProcessEvents(s2, startTime + s2.currentTime)
       IN UpdateFlows(s3, dt)

----------------------------------------------------------------------------
(* togglePlayback, setSpeed, restart *)

TogglePlayback(s) == [s EXCEPT !.isPlaying = ~@]

SetSpeed(s, speed) == [s EXCEPT !.playbackSpeed = speed]

CleanupAllInfoBoxes(s) == [s EXCEPT !.infoBoxes = {}]

\* restart: "Reset timeline variables"
ResetPlaybackToggle(s) ==
  [s EXCEPT !.currentTime = 0,
            !.currentStage = 0,
            !.isPlaying = ~@,
            !.lastEventProcessedTime = 0,
            !.lastProcessedEventType = "null"]

ResetPlaybackAndSpeed(s) ==
  [s EXCEPT !.currentTime = 0,
            !.currentStage = 0,
            !.isPlaying = TRUE,
            !.playbackSpeed = 1,
            !.lastEventProcessedTime = 0,
            !.lastProcessedEventType = "null"]

ResetPlayback(s) ==
  [s EXCEPT !.currentTime = 0,
            !.currentStage = 0,
            !.isPlaying = TRUE,
            !.lastEventProcessedTime = 0,
            !.lastProcessedEventType = "null"]

ResetFlags(s) ==
  [s EXCEPT !.lastFollowedStage = -1,
            !.cveExplained = FALSE,
            !.criticalAccessShown = FALSE,
            !.ntdsShown = FALSE,
            !.otShown = FALSE]

\* restart: "Resume any paused animations"
ResumeAnimationsSkipped(s) == s

ResumeAnimations(s) == [s EXCEPT !.gsapPaused = FALSE]

\* restart: "Clean up active flows"
ClearFlows(s) == [s EXCEPT !.activeFlows = <<>>]

\* restart: "Reset all events to unprocessed"
ResetEvents(s) ==
  [s EXCEPT !.processed = [k \in 1..Len(data) |-> FALSE],
            !.handed = [k \in 1..Len(data) |-> 0]]

Restart(s) ==
  LET s1 == ResetFlags(ResetPlayback(CleanupAllInfoBoxes(s)))
      s2 == ResetEvents(ClearFlows(ResumeAnimations(s1)))
  IN [s2 EXCEPT !.camera = <<"initial", 0>>, !.run = @ + 1]

\* the callback of a timer that has come due
RunTimer(s, t) ==
  CASE t.kind = "spawn" -> CreateSinglePacket(s, t.ev, t.first, t.run)
    [] t.kind = "dismiss" -> Dismiss(s, t)
    [] t.kind = "resetCritical" -> [s EXCEPT !.criticalAccessShown = FALSE]
    [] t.kind = "resetOT" -> [s EXCEPT !.otShown = FALSE]
    [] t.kind = "follow" -> FollowAttack(s, t.ev)

----------------------------------------------------------------------------
(* The state machine *)

NoOp == [op |-> "init", dispatched |-> <<>>, dt |-> 0, kind |-> "none",
         stale |-> FALSE, alertActive |-> FALSE, again |-> FALSE,
         played |-> FALSE, hooks |-> <<>>]

\* real time since the last dispatch is tracked up to minEventInterval
Cap(n) == IF n > minEventInterval THEN minEventInterval ELSE n

\* an alert is active: it is on screen and its dismissal has not run
ActiveAlerts ==
  {k \in 1..Len(timers) :
     /\ timers[k].kind = "dismiss"
     /\ BoxOf(timers[k].alert, timers[k].ev, timers[k].run) \in infoBoxes}

\* (playback starts after init(): the document is not kept)
NoDocument == [kind |-> "none", events |-> <<>>]

\* the fields as the constructor leaves them
EngineFields ==
  /\ currentTime = 0
  /\ playbackSpeed = 1
  /\ isPlaying = TRUE
  /\ currentStage = 0
  /\ lastEventProcessedTime = 0
  /\ lastProcessedEventType = "null"
  /\ processed = [k \in 1..Len(data) |-> FALSE]
  /\ activeFlows = <<>>
  /\ cveExplained = FALSE
  /\ criticalAccessShown = FALSE
  /\ ntdsShown = FALSE
  /\ otShown = FALSE
  /\ lastFollowedStage = -1
  /\ gsapPaused = FALSE
  /\ timers = <<>>
  /\ infoBoxes = {}
  /\ tweens = <<>>
  /\ effects = EmptyBag
  /\ camera = <<"initial", 0>>
  /\ run = 0
  /\ handed = [k \in 1..Len(data) |-> 0]
  /\ calls = 0
  /\ sinceDispatch = minEventInterval
  /\ lastOp = NoOp

Constructed ==
  /\ json = NoDocument
  /\ EngineFields

Init ==
  /\ data \in Datasets
  /\ Constructed

\* one animation frame, dt real ms after the previous one: every pending
\* timer is dt closer to its due time (none was due earlier), and
\* update(dt / 1000) runs
Frame(dt) ==
  /\ \A k \in 1..Len(timers) : timers[k].rem >= dt
  /\ \E s1 \in {Update([St EXCEPT !.timers = Elapse(@, dt),
                                     !.tweens = ElapseTweens(St, dt)],
                          dt)} :
        /\ Apply(s1)
        /\ sinceDispatch' = IF Len(s1.log) > 0 THEN 0
                            ELSE Cap(sinceDispatch + dt)
        /\ lastOp' = [NoOp EXCEPT !.op = "update", !.dispatched = s1.log,
                                  !.dt = dt, !.played = isPlaying,
                                  !.hooks = s1.hooks]
  /\ UNCHANGED data

Tick(dt) ==
  /\ calls < MaxCalls
  /\ Frame(dt)
  /\ calls' = calls + 1

\* the earliest pending setTimeout callback runs at its due time.  While
\* playback is on, frames arrive every dt and a timer runs right after the
\* frame at which it is due; while it is off, update() does nothing and the
\* frames in between are not counted.
TimerFire ==
  /\ Len(timers) > 0
  /\ LET k == EarliestTimer(timers)
         t == timers[k]
         s0 == [St EXCEPT !.timers = Elapse(RemoveAt(@, k), t.rem),
                          !.tweens = ElapseTweens(St, t.rem)]
     IN /\ isPlaying => t.rem = 0
        /\ Apply(RunTimer(s0, t))
        /\ sinceDispatch' = Cap(sinceDispatch + t.rem)
        /\ lastOp' = [NoOp EXCEPT !.op = "timer", !.kind = t.kind,
                                  !.stale = (t.run # run)]
  /\ UNCHANGED <<data, calls>>

DoTogglePlayback ==
  /\ calls < MaxCalls
  /\ Apply(TogglePlayback(St))
  /\ lastOp' = [NoOp EXCEPT !.op = "togglePlayback"]
  /\ calls' = calls + 1
  /\ UNCHANGED <<data, sinceDispatch>>

DoSetSpeed(speed) ==
  /\ calls < MaxCalls
  /\ speed # playbackSpeed
  /\ Apply(SetSpeed(St, speed))
  /\ lastOp' = [NoOp EXCEPT !.op = "setSpeed"]
  /\ calls' = calls + 1
  /\ UNCHANGED <<data, sinceDispatch>>

DoRestart ==
  /\ calls < MaxCalls
  /\ Apply(Restart(St))
  /\ lastOp' = [NoOp EXCEPT !.op = "restart",
                            !.alertActive = (ActiveAlerts # {} /\ ~isPlaying),
                            !.again = (lastOp.op = "restart")]
  /\ sinceDispatch' = minEventInterval
  /\ calls' = calls + 1
  /\ UNCHANGED data

Next ==
  \/ \E dt \in DtSet : Tick(dt)
  \/ TimerFire
  \/ DoTogglePlayback
  \/ \E speed \in Speeds : DoSetSpeed(speed)
  \/ DoRestart

Spec == Init /\ [][Next]_vars

----------------------------------------------------------------------------
(* Playback over the routed datasets, with the packets' gsap timelines     *)
(* played: while gsap.globalTimeline is running, gsap's ticker plays a     *)
(* step in the frame in which the timeline's time reaches it, before the   *)
(* next frame is rendered.  The packets of one event have the same         *)
(* timeline, so an older one has always played further than a younger one. *)

TweenStep ==
  /\ ~gsapPaused
  /\ \E k \in 1..Len(tweens) :
       /\ Timeline(data[tweens[k].ev])[tweens[k].pc].due <= tweens[k].elapsed
       /\ \A j \in 1..(k - 1) :
            tweens[j].ev = tweens[k].ev => tweens[j].pc > tweens[k].pc
       /\ Apply(PlayTween(St, k))
       /\ lastOp' = [NoOp EXCEPT !.op = "tween",
                                 !.kind =
                                   Timeline(data[tweens[k].ev])[tweens[k].pc].do]
  /\ UNCHANGED <<data, calls, sinceDispatch>>

\* a step of some timeline has come due and has not been played yet
TweenDue ==
  /\ ~gsapPaused
  /\ \E k \in 1..Len(tweens) :
       Timeline(data[tweens[k].ev])[tweens[k].pc].due <= tweens[k].elapsed

\* frame times of the routed playback, none longer than a hop
RouteDtSet == {200, 1500}

RouteTick(dt) == ~TweenDue /\ Tick(dt)

RouteTimerFire == ~TweenDue /\ TimerFire

InitRoutes ==
  /\ data \in RouteDatasets
  /\ Constructed

NextRoutes ==
  \/ \E dt \in RouteDtSet : RouteTick(dt)
  \/ RouteTimerFire
  \/ TweenStep
  \/ DoRestart

SpecRoutes == InitRoutes /\ [][NextRoutes]_vars

----------------------------------------------------------------------------
(* Playback over the datasets with two events eligible for one alert kind *)

InitAlerts ==
  /\ data \in AlertDatasets
  /\ Constructed

SpecAlerts == InitAlerts /\ [][Next]_vars

----------------------------------------------------------------------------
(* Playback with the page allowed to be in the background *)

\* the page is hidden while playback is on: requestAnimationFrame is
\* suspended, so no update() runs, and the earliest setTimeout callback
\* runs when it comes due
BackgroundTimerFire ==
  /\ Len(timers) > 0
  /\ isPlaying
  /\ LET k == EarliestTimer(timers)
         t == timers[k]
         s0 == [St EXCEPT !.timers = Elapse(RemoveAt(@, k), t.rem),
                          !.tweens = ElapseTweens(St, t.rem)]
     IN /\ t.rem > 0
        /\ Apply(RunTimer(s0, t))
        /\ sinceDispatch' = Cap(sinceDispatch + t.rem)
        /\ lastOp' = [NoOp EXCEPT !.op = "timer", !.kind = t.kind,
                                  !.stale = (t.run # run)]
  /\ UNCHANGED <<data, calls>>

InitBackground ==
  /\ data = DataCred
  /\ Constructed

NextBackground ==
  \/ \E dt \in DtSet : Tick(dt)
  \/ TimerFire
  \/ DoTogglePlayback
  \/ BackgroundTimerFire

SpecBackground == InitBackground /\ [][NextBackground]_vars

----------------------------------------------------------------------------
(* The playback clock over the whole timeline: long frames, every speed    *)
(* button                                                                  *)

ClockDtSet == {1000, 360000}
ClockSpeeds == {1, 10, 30, 45, 60}

\* one frame: the frames explored are those whose dt * playbackSpeed is at
\* most MaxFrameAdvance, so that the simulated advance stays within the
\* range of the model's integers
ClockTick(dt) ==
  /\ dt * playbackSpeed <= MaxFrameAdvance
  /\ Tick(dt)

InitClock ==
  /\ data = DataQuiet
  /\ Constructed

NextClock ==
  \/ \E dt \in ClockDtSet : ClockTick(dt)
  \/ TimerFire
  \/ DoTogglePlayback
  \/ \E speed \in ClockSpeeds : DoSetSpeed(speed)
  \/ DoRestart

SpecClock == InitClock /\ [][NextClock]_vars

----------------------------------------------------------------------------
(* Long frames over the dataset with one event per stage, where several   *)
(* events of different stages are due in one update, and over the dataset  *)
(* with a late alert, which the last update of the timeline can dispatch   *)

InitStages ==
  /\ data \in {DataBacklog, DataLateAlert}
  /\ Constructed

SpecStages == InitStages /\ [][NextClock]_vars

----------------------------------------------------------------------------
(* Properties *)

Events == 1..Len(data)

\* the step is a call of update()
IsUpdateStep == lastOp'.op = "update" /\ calls' = calls + 1

\* the events that are due and undispatched at the current simulated time
DueNow ==
  {j \in Events : data[j].timestamp <= startTime + currentTime
                  /\ ~processed[j]}

\* C1: between two restarts an event's processed flag goes from false to
\* true at most once and never back, and the event is handed to
\* createPacketFlow at most once: the number of times an event was handed
\* over in the current run is 1 if its flag is set and 0 if not.
C1_DispatchedOnce ==
  \A j \in Events : handed[j] = IF processed[j] THEN 1 ELSE 0

\* C1 witness: an update() has dispatched an event while an event dispatched
\* by an earlier update() of the same run was still due.
C1_Witness ==
  /\ lastOp.op = "update"
  /\ Len(lastOp.dispatched) = 1
  /\ \E j \in Events : /\ processed[j]
                       /\ handed[j] = 1
                       /\ j # lastOp.dispatched[1]

\* C2: while an alert is active (on screen, its dismissal not yet run), a
\* call of update() leaves currentTime unchanged.
C2_AlertHoldsClock ==
  [][(ActiveAlerts # {} /\ IsUpdateStep) => currentTime' = currentTime]_vars

\* C3: right after restart(): currentTime = 0, isPlaying, stage 0, no event
\* processed, the dispatch bookkeeping and every alert flag cleared, the
\* animation engine resumed, no active flow and no alert on screen.
C3_RestartResets ==
  lastOp.op = "restart" =>
    /\ currentTime = 0
    /\ isPlaying
    /\ currentStage = 0
    /\ \A j \in Events : ~processed[j]
    /\ lastEventProcessedTime = 0
    /\ lastProcessedEventType = "null"
    /\ ~cveExplained /\ ~criticalAccessShown /\ ~ntdsShown /\ ~otShown
    /\ ~gsapPaused
    /\ activeFlows = <<>>
    /\ infoBoxes = {}

\* C3 witness: restart() was called while an alert was on screen and had
\* paused playback, with that alert's dismissal still pending.
C3_Witness ==
  /\ lastOp.op = "restart"
  /\ lastOp.alertActive
  /\ \E k \in 1..Len(timers) : timers[k].kind = "dismiss"

\* C4: restart() cancels the pending packet spawns: every active flow was
\* created for an event dispatched in the current run.
C4_NoFlowFromEarlierRun ==
  \A k \in 1..Len(activeFlows) : activeFlows[k].run = run

\* C5: a timer callback scheduled before a restart() has no effect after it
\* on isPlaying, on the animation engine or on the alert flags.
C5_StaleTimersInert ==
  [][(lastOp'.op = "timer" /\ lastOp'.stale /\ Len(timers') < Len(timers))
       => /\ isPlaying' = isPlaying
          /\ gsapPaused' = gsapPaused
          /\ criticalAccessShown' = criticalAccessShown
          /\ otShown' = otShown]_vars

\* C6: restart() called right after restart() changes nothing of the
\* playback state (currentTime 0, isPlaying, stage 0) and leaves the sets of
\* active flows and alerts empty, as the first call left them.
C6_RestartIdempotent ==
  [][(lastOp.op = "restart" /\ lastOp'.op = "restart" /\ run' = run + 1)
       => /\ currentTime' = currentTime /\ currentTime' = 0
          /\ isPlaying' = isPlaying /\ isPlaying'
          /\ currentStage' = currentStage /\ currentStage' = 0
          /\ playbackSpeed' = playbackSpeed
          /\ lastEventProcessedTime' = lastEventProcessedTime
          /\ lastProcessedEventType' = lastProcessedEventType
          /\ activeFlows' = activeFlows /\ activeFlows' = <<>>
          /\ infoBoxes' = infoBoxes /\ infoBoxes' = {}]_vars

\* C6 witness: two restart() calls in a row have happened.
C6_Witness == lastOp.op = "restart" /\ lastOp.again /\ run >= 2

\* C7: two consecutive dispatches of a run are at least 500 ms of real
\* time apart: an update() that comes less than 500 ms of real time after
\* the last dispatch dispatches nothing.
C7_MinRealInterval ==
  [][(IsUpdateStep /\ sinceDispatch + lastOp'.dt < minEventInterval)
       => Len(lastOp'.dispatched) = 0]_vars

C9_ScanBeforeZeroDay ==
  (data = DataScan /\ processed[2]) => processed[3]

\* C10: a call of update() dispatches at most one event.
C10_OneDispatchPerUpdate ==
  [][/\ Cardinality({j \in Events : ~processed[j] /\ processed'[j]}) <= 1
     /\ Cardinality({j \in Events : handed'[j] > handed[j]}) <= 1
     /\ \A j \in Events : handed'[j] <= handed[j] + 1]_vars

\* C10 witness: an update() has dispatched one event and has left another
\* due event undispatched.
C10_Witness ==
  /\ lastOp.op = "update"
  /\ Len(lastOp.dispatched) = 1
  /\ DueNow # {}

\* C11: an update() dispatches only an event whose timestamp is at most
\* startTime + currentTime (the new simulated time) and whose processed flag
\* was false; when there is no such event it dispatches nothing and leaves
\* the processed flags, lastEventProcessedTime and lastProcessedEventType
\* as they were.
C11_OnlyDueEvents ==
  [][IsUpdateStep =>
       LET due == {j \in Events :
                     data[j].timestamp <= startTime + currentTime'
                     /\ ~processed[j]}
       IN /\ \A k \in 1..Len(lastOp'.dispatched) :
               lastOp'.dispatched[k] \in due
          /\ \A j \in Events :
               (~processed[j] /\ processed'[j]) => j \in due
          /\ due = {} =>
               /\ lastOp'.dispatched = <<>>
               /\ processed' = processed
               /\ handed' = handed
               /\ lastEventProcessedTime' = lastEventProcessedTime
               /\ lastProcessedEventType' = lastProcessedEventType]_vars

\* C11 witness: playback is on, an update() has just dispatched nothing
\* because the only undispatched event is not yet due, after an earlier
\* dispatch of the run.
C11_Witness ==
  /\ lastOp.op = "update"
  /\ lastOp.dispatched = <<>>
  /\ isPlaying
  /\ DueNow = {}
  /\ lastEventProcessedTime # 0
  /\ \E j \in Events : ~processed[j]

\* C12: togglePlayback() flips isPlaying when no alert is active and leaves
\* isPlaying unchanged while an alert is active (holds the pause lock).
C12_ToggleRespectsAlert ==
  [][(lastOp'.op = "togglePlayback" /\ calls' = calls + 1) =>
       isPlaying' = IF ActiveAlerts = {} THEN ~isPlaying ELSE isPlaying]_vars

\* C14: at most one alert is active (holds the pause lock) at any time: of
\* two alerts of different kinds that one dispatched event is eligible for,
\* only the first is shown.
C14_OneAlertAtATime == Cardinality(ActiveAlerts) <= 1

AlertKinds == {"zero_day", "critical_access", "ntds", "ot", "exfil"}

\* the active alerts of one kind
ActiveOfKind(kind) == {k \in ActiveAlerts : timers[k].alert = kind}

\* the event meets the condition under which the code requests the kind
Eligible(e, kind) ==
  CASE kind = "critical_access" -> e.category = "credential_access"
    [] kind = "ntds" -> e.attack_type = "credential_harvesting" /\ e.ntds
    [] kind = "ot" -> e.attack_type = "ot_system_access"
    [] kind = "exfil" -> e.attack_type = "multi_hop_exfiltration" /\ e.stage = 5
    [] kind = "zero_day" -> e.attack_type = "zero_day_exploit"

\* C13: at most one alert of any given kind is active; a request for a kind
\* that is already active shows nothing.
C13_OneAlertPerKind ==
  \A kind \in AlertKinds : Cardinality(ActiveOfKind(kind)) <= 1

\* C15: right after the dismissal of an alert of the current run has run,
\* isPlaying equals the snapshot taken when the alert was shown, and the
\* alert is no longer on screen.
C15_DismissalRestoresSnapshot ==
  [][(/\ lastOp'.op = "timer" /\ lastOp'.kind = "dismiss"
      /\ ~lastOp'.stale /\ Len(timers') < Len(timers)) =>
       LET t == timers[EarliestTimer(timers)]
       IN /\ isPlaying' = t.wasPlaying
          /\ BoxOf(t.alert, t.ev, t.run) \notin infoBoxes']_vars

\* C16: the dismissal of an alert clears the flag of its kind: an update()
\* that dispatches an event eligible for a kind, when every alert shown
\* before has been dismissed, shows an alert of that kind for the event.
C16_DismissalClearsFlag ==
  [][(IsUpdateStep /\ Len(lastOp'.dispatched) > 0) =>
       LET ev == lastOp'.dispatched[1]
       IN \A kind \in AlertKinds :
            (Eligible(data[ev], kind) /\ ActiveAlerts = {})
              => BoxOf(kind, ev, run) \in infoBoxes']_vars

\* C17: at speed 1 with playback on, the update() that brings the real
\* deltas to 720 s in all (simulated time to exactly the duration) leaves
\* currentTime = 259,200,000 ms and isPlaying false.
C17_EndAfter720s ==
  [][(/\ IsUpdateStep /\ isPlaying /\ playbackSpeed = 1
      /\ currentTime + lastOp'.dt * 360 = 259200000) =>
       (currentTime' = 259200000 /\ ~isPlaying')]_vars

\* C18: 0 <= currentTime <= duration always, and once currentTime equals
\* the duration only restart() changes it.
C18_EndIsTerminal ==
  /\ [](currentTime >= 0 /\ currentTime <= 259200000)
  /\ [][(currentTime = 259200000 /\ lastOp'.op # "restart")
          => currentTime' = currentTime]_vars

\* C18 witness: an update() of one second has run at speed 1 with playback
\* on while the clock was already at the duration (every advance is a
\* multiple of 360,000 ms): the clock is still at the duration.
C18_Witness ==
  /\ lastOp.op = "update"
  /\ lastOp.played
  /\ lastOp.dt = 1000
  /\ playbackSpeed = 1
  /\ currentTime = duration
  /\ ~isPlaying

\* C19: at every speed button (1, 10, 30, 45, 60) an update(dt) with
\* playback on that does not pass the end adds dt * speed * 360,000 ms per
\* real second to currentTime (6 simulated minutes per real second at 1x).
\* The frames explored are whole seconds.
C19_ClockRate ==
  [][(/\ IsUpdateStep /\ isPlaying
      /\ playbackSpeed \in {1, 10, 30, 45, 60}
      /\ currentTime + (lastOp'.dt \div 1000) * playbackSpeed * 360000
           <= 259200000) =>
       currentTime' =
         currentTime + (lastOp'.dt \div 1000) * playbackSpeed * 360000]_vars

\* C19 witness: an update() of one real second has run at 45x from a
\* clock that other speeds had advanced before.
C19_Witness ==
  /\ lastOp.op = "update"
  /\ lastOp.played
  /\ lastOp.dt = 1000
  /\ playbackSpeed = 45
  /\ currentTime > 45 * 360000
  /\ currentTime < duration

\* C20: update() called while isPlaying is false changes nothing:
\* currentTime, the stage, the processed flags, the dispatch bookkeeping
\* and the active flows with their ages stay as they were.
C20_PausedUpdateIsNoOp ==
  [][(IsUpdateStep /\ ~isPlaying) =>
       /\ currentTime' = currentTime
       /\ currentStage' = currentStage
       /\ processed' = processed
       /\ handed' = handed
       /\ lastEventProcessedTime' = lastEventProcessedTime
       /\ lastProcessedEventType' = lastProcessedEventType
       /\ activeFlows' = activeFlows
       /\ isPlaying' = isPlaying
       /\ infoBoxes' = infoBoxes]_vars

\* C20 witness: update() has been called while playback was paused, with
\* an active flow and an undispatched event that is due.
C20_Witness ==
  /\ lastOp.op = "update"
  /\ ~lastOp.played
  /\ Len(activeFlows) > 0
  /\ DueNow # {}

\* C21: once currentTime is at the end of the last stage (72 h) and an
\* update() has run there with playback on, the current stage is no stage
\* ("complete"): it is none of the five stages.
C21_CompleteAtEnd ==
  (lastOp.op = "update" /\ lastOp.played /\ currentTime = 259200000)
    => currentStage \notin 0..4

\* the stage windows [start, end) that contain simulated time t
WindowsAt(t) ==
  {k \in 1..Len(stages) :
     t >= stages[k].start * 3600000 /\ t < stages[k].end * 3600000}

\* the first, second and last millisecond of every hour of the timeline
SampleTimes ==
  {h * 3600000 + off : h \in 0..71, off \in {0, 1, 3599999}}

\* C22: the stage windows are contiguous and do not overlap: every
\* simulated time in [0, duration) lies in exactly one window [start, end).
\* The windows are whole hours, so it is enough to look at the first,
\* second and last millisecond of every hour, and at the time reached.
C22_OneWindowPerTime ==
  /\ \A t \in SampleTimes : Cardinality(WindowsAt(t)) = 1
  /\ currentTime < 259200000 => Cardinality(WindowsAt(currentTime)) = 1

\* C22 witness: playback has resolved the last stage before the end.
C22_Witness ==
  /\ lastOp.op = "update"
  /\ lastOp.played
  /\ currentStage = 4
  /\ currentTime < duration
  /\ WindowsAt(currentTime) = {5}

\* C23: an update() that resolves one of the five stages, different from
\* the current stage, runs the stage hook (camera move and announcement)
\* once, with the new stage; no other update() and no other operation runs
\* it.
C23_HookOncePerTransition ==
  [][LET resolved == {k - 1 : k \in WindowsAt(currentTime')}
     IN lastOp'.hooks =
          IF /\ IsUpdateStep /\ isPlaying
             /\ resolved # {} /\ resolved # {currentStage}
            THEN <<currentStage'>>
            ELSE <<>>]_vars

\* C23 witness: an update() has moved from stage 0 straight to stage 2 and
\* has run the hook for stage 2.
C23_Witness ==
  /\ lastOp.op = "update"
  /\ lastOp.hooks = <<2>>
  /\ currentStage = 2
  /\ camera = <<"stage", 2>>
  /\ currentTime = 129600000

\* C24: a flow of an event dispatched by an update() is not in activeFlows
\* when that update() returns (the frame is rendered right after it): the
\* first flow is created by a timer callback, before the next frame.
C24_NoFlowInDispatchFrame ==
  [][(IsUpdateStep /\ Len(lastOp'.dispatched) > 0) =>
       \A k \in 1..Len(activeFlows') :
         ~(/\ activeFlows'[k].ev = lastOp'.dispatched[1]
           /\ activeFlows'[k].run = run')]_vars

\* C24 witness: the timer callback after a dispatching update() has
\* created the first flow of the dispatched event.
C24_Witness ==
  /\ lastOp.op = "timer"
  /\ lastOp.kind = "spawn"
  /\ ~lastOp.stale
  /\ \E k \in 1..Len(activeFlows) :
       /\ activeFlows[k].age = 0
       /\ activeFlows[k].first
       /\ activeFlows[k].run = run
       /\ processed[activeFlows[k].ev]

----------------------------------------------------------------------------
(* Playback left to itself: the browser keeps delivering animation frames  *)
(* and due timers; restart() may be called, but nothing makes it happen.   *)

LiveDtSet == {60000, 360000}    \* frames of a throttled page, real ms

LiveFrame(dt) ==
  /\ dt * playbackSpeed <= MaxFrameAdvance
  /\ Frame(dt)
  /\ UNCHANGED calls

InitLive ==
  /\ data = DataLate
  /\ Constructed

LiveRestart ==
  /\ run < MaxRestarts
  /\ DoRestart

NextLive ==
  \/ \E dt \in LiveDtSet : LiveFrame(dt)
  \/ TimerFire
  \/ LiveRestart

SpecLive ==
  /\ InitLive
  /\ [][NextLive]_vars
  /\ WF_vars(\E dt \in LiveDtSet : LiveFrame(dt))
  /\ WF_vars(TimerFire)

----------------------------------------------------------------------------
(* Playback that is never paused or restarted by the user: frames, due     *)
(* timers and changes of speed                                             *)

InitUnattended ==
  /\ data = DataTail
  /\ Constructed

NextUnattended ==
  \/ \E dt \in LiveDtSet : LiveFrame(dt)
  \/ TimerFire
  \/ \E speed \in Speeds : DoSetSpeed(speed)

SpecUnattended ==
  /\ InitUnattended
  /\ [][NextUnattended]_vars
  /\ WF_vars(\E dt \in LiveDtSet : LiveFrame(dt))
  /\ WF_vars(TimerFire)

\* the effects of one type that the packets of event ev, dispatched in run
\* r, have produced
EffectsOf(type, ev, r) ==
  {eff \in BagToSet(effects) :
     eff.type = type /\ eff.ev = ev /\ eff.run = r}

RECURSIVE Total(_)
Total(effs) ==
  IF effs = {} THEN 0
  ELSE LET eff == CHOOSE x \in effs : TRUE
       IN CopiesIn(eff, effects) + Total(effs \ {eff})

\* every packet of the batch of event ev of this run was created and has
\* played its timeline to the end
BatchArrived(ev) ==
  /\ processed[ev]
  /\ handed[ev] = 1
  /\ \A k \in 1..Len(timers) :
       ~(timers[k].kind = "spawn" /\ timers[k].ev = ev /\ timers[k].run = run)
  /\ \A k \in 1..Len(tweens) : ~(tweens[k].ev = ev /\ tweens[k].run = run)

\* C25: per dispatch of an event there is at most one impact effect and at
\* most one compromise marking, and each comes from the first packet of
\* the batch of a successful event.
C25_OneImpactPerDispatch ==
  /\ \A ev \in 1..Len(data), r \in 0..run :
       /\ Total(EffectsOf("impact", ev, r)) <= 1
       /\ Total(EffectsOf("compromised", ev, r)) <= 1
  /\ \A eff \in BagToSet(effects) :
       eff.type \in {"impact", "compromised"} =>
         eff.first /\ data[eff.ev].success

\* C25 witness: all five packets of a successful credential-access event
\* have reached the destination and there is one impact and one marking.
C25_Witness ==
  /\ data = DataBatch
  /\ lastOp.op = "tween"
  /\ BatchArrived(1)
  /\ PacketCount(data[1]) = 5
  /\ Total(EffectsOf("impact", 1, run)) = 1
  /\ Total(EffectsOf("compromised", 1, run)) = 1

\* the k-th of the spawn timers of event ev of run r
SpawnTimers(ts, ev, r) ==
  SelectSeq(ts, LAMBDA t : t.kind = "spawn" /\ t.ev = ev /\ t.run = r)

\* C26: a dispatched event gets 5 packets if its category is
\* credential_access, else 3 for lotl_discovery and wmi_lateral_movement,
\* 2 for rdp_lateral_movement, 1 otherwise; packet k (from 0) starts
\* k * 200 ms after the dispatch.
C26_BatchSizeAndStagger ==
  [][(IsUpdateStep /\ Len(lastOp'.dispatched) > 0) =>
       LET ev == lastOp'.dispatched[1]
           e == data[ev]
           n == IF e.category = "credential_access" THEN 5
                ELSE IF e.attack_type \in {"lotl_discovery",
                                           "wmi_lateral_movement"} THEN 3
                ELSE IF e.attack_type = "rdp_lateral_movement" THEN 2
                ELSE 1
           spawn == SpawnTimers(timers', ev, run')
       IN /\ Len(spawn) = n
          /\ \A k \in 1..Len(spawn) : spawn[k].rem = (k - 1) * 200]_vars

\* the waypoints of the timeline createSinglePacket builds for event e
Waypoints(e) ==
  IF Len(e.proxy_chain) > 0 THEN FullPath(e)
  ELSE <<e.source_ip, e.destination_ip>>

\* C27: the waypoint list of a packet in flight is proxy_chain followed by
\* the destination (not repeated if it is the chain's last element), and
\* [source, destination] without a proxy_chain; it ends at the destination.
C27_WaypointsEndAtDestination ==
  \A k \in 1..Len(tweens) :
    LET e == data[tweens[k].ev]
        chain == e.proxy_chain
        path == Waypoints(e)
    IN /\ path[Len(path)] = e.destination_ip
       /\ path = IF Len(chain) = 0 THEN <<e.source_ip, e.destination_ip>>
                 ELSE IF chain[Len(chain)] = e.destination_ip THEN chain
                 ELSE Append(chain, e.destination_ip)

\* C28: when the one packet of the successful event with proxy_chain
\* [A, B] and destination C has played its timeline, there are exactly
\* two hop pulses and exactly one impact, at C.
C28_TwoHopPulsesOneImpact ==
  (/\ data = DataHops
   /\ BatchArrived(1))
    => /\ Total(EffectsOf("hop", 1, run)) = 2
       /\ Total(EffectsOf("impact", 1, run)) = 1
       /\ \A eff \in EffectsOf("impact", 1, run) :
            eff.pos = <<"node", NodeOf(data[1].destination_ip)>>

\* C29: an event whose source or destination is not a key of the node
\* registry gets no flow: no packet is scheduled or created for it.
C29_NoFlowForUnknownNode ==
  \A ev \in 1..Len(data) :
    (NodeOf(data[ev].source_ip) = 0 \/ NodeOf(data[ev].destination_ip) = 0)
      => /\ \A k \in 1..Len(activeFlows) : activeFlows[k].ev # ev
         /\ \A k \in 1..Len(timers) :
              ~(timers[k].kind = "spawn" /\ timers[k].ev = ev)

\* a flow of event ev is in activeFlows
InFlight(ev) == \E k \in 1..Len(activeFlows) : activeFlows[k].ev = ev

\* the flows an update() keeps are the youngest ones, none of them younger
\* than before; a timer callback adds a flow and keeps the others as they
\* are
AgesGrow ==
  LET kept == Len(activeFlows')
      gone == Len(activeFlows) - Len(activeFlows')
  IN /\ IsUpdateStep =>
          /\ gone >= 0
          /\ \A k \in 1..kept :
               /\ activeFlows'[k].ev = activeFlows[k + gone].ev
               /\ activeFlows'[k].run = activeFlows[k + gone].run
               /\ activeFlows'[k].first = activeFlows[k + gone].first
               /\ activeFlows'[k].age >= activeFlows[k + gone].age
     /\ lastOp'.op \in {"timer", "tween"} =>
          /\ gone <= 0
          /\ SubSeq(activeFlows', 1, Len(activeFlows)) = activeFlows

\* C30: a flow's age never decreases while it is in activeFlows, and every
\* flow leaves activeFlows at some time (by expiry or by restart) and then
\* stays out.
C30_FlowsAgeAndLeave ==
  /\ [][AgesGrow]_vars
  /\ \A ev \in 1..2 : InFlight(ev) ~> ~InFlight(ev)

\* the safety half of C30 alone
C30_AgesGrow == [][AgesGrow]_vars

\* an event the camera is to follow
Major(e) == e.severity >= 9 \/ e.attack_type = "ot_system_access"

\* C31: every dispatch of an event with severity >= 9 or of type
\* ot_system_access moves the camera to the event's source and destination:
\* in the dispatching update, or for a zero_day_exploit by a callback due
\* 2000 ms later.
C31_CameraFollowsMajorEvents ==
  [][(IsUpdateStep /\ Len(lastOp'.dispatched) > 0) =>
       LET ev == lastOp'.dispatched[1]
           e == data[ev]
       IN Major(e) =>
            IF e.attack_type = "zero_day_exploit"
              THEN \E k \in 1..Len(timers') :
                     /\ timers'[k].kind = "follow"
                     /\ timers'[k].ev = ev
                     /\ timers'[k].run = run'
                     /\ timers'[k].rem = 2000
              ELSE camera' = <<"follow", ev>>]_vars

\* C32: when an update dispatches an event and some due, undispatched
\* event carries the ordinal (from 1) of the stage window that contains
\* the current time, the dispatched event is one of those.
C32_CandidatesByStageOrdinal ==
  [][(IsUpdateStep /\ Len(lastOp'.dispatched) > 0) =>
       LET now == startTime + currentTime'
           due == {k \in Events : data[k].timestamp <= now /\ ~processed[k]}
           candidates == {k \in due : data[k].stage \in WindowsAt(currentTime')}
       IN candidates # {} => lastOp'.dispatched[1] \in candidates]_vars

\* C33: with no restart and no manual pause, every event of the timeline
\* is dispatched at some time.
C33_EveryEventDispatched == \A ev \in 1..3 : <>processed[ev]

\* C34: whenever no alert is active (every alert shown has been
\* dismissed), gsap's global timeline is running.
C34_NoAlertNoSuspension == (ActiveAlerts = {}) => ~gsapPaused

\* C35: an impact effect or a compromise marking is made only while the
\* flow of the packet that triggers it is still in activeFlows.
C35_ImpactWhileFlowActive ==
  [][\A eff \in BagToSet(effects') :
       (/\ eff.type \in {"impact", "compromised"}
        /\ CopiesIn(eff, effects') > CopiesIn(eff, effects))
         => \E k \in 1..Len(activeFlows) :
              /\ activeFlows[k].ev = eff.ev
              /\ activeFlows[k].run = eff.run
              /\ activeFlows[k].first = eff.first]_vars

\* C36: while an alert holds playback paused, activeFlows does not change:
\* no flow is created from the moment the alert is shown until it is
\* dismissed, not even by the batch of the event that triggered the alert.
C36_NoFlowDuringAlert ==
  [][(ActiveAlerts # {} /\ ~isPlaying /\ ActiveAlerts' # {})
       => activeFlows' = activeFlows]_vars

\* C37: restart() leaves the speed multiplier and the event list as they
\* were: the multiplier chosen before is still in force, the events keep
\* their order and fields, and only the dispatched flags are reset.
C37_RestartKeepsSpeedAndEvents ==
  [][lastOp'.op = "restart" =>
       /\ playbackSpeed' = playbackSpeed
       /\ data' = data
       /\ \A ev \in 1..Len(data) : ~processed'[ev]]_vars

\* C37 witness: a restart has just run, after an event had been dispatched
\* at a multiplier other than the initial one.
C37_Witness ==
  /\ lastOp.op = "restart"
  /\ playbackSpeed # 1
  /\ run = 1
  /\ currentTime = 0
  /\ \A ev \in 1..Len(data) : ~processed[ev]
  /\ \E k \in 1..Len(tweens) : tweens[k].run = 0

----------------------------------------------------------------------------
(* The simpler engine, AttackTimeline: no alerts, no batches, no dispatch  *)
(* gate.  Its constructor sorts the loaded events by timestamp.            *)

AttackFlowLifetime == 2000
AttackTweenDuration == 1500
AttackSpeeds == {3600, 360, 60}
AttackDtSet == {1000, 36000}

attackStages == <<[start |-> 0,  end |-> 12],
                  [start |-> 12, end |-> 24],
                  [start |-> 24, end |-> 48],
                  [start |-> 48, end |-> 60],
                  [start |-> 60, end |-> 72]>>

\* (the events left in the order they were loaded in)
OrderAsLoaded(d) == d

\* data.sort((a, b) => new Date(a.timestamp) - new Date(b.timestamp)):
\* Array.prototype.sort is stable, so equal timestamps keep their order
RECURSIVE InsertByTimestamp(_, _)
InsertByTimestamp(sorted, e) ==
  IF Len(sorted) = 0 THEN <<e>>
  ELSE IF e.timestamp < sorted[Len(sorted)].timestamp
    THEN InsertByTimestamp(SubSeq(sorted, 1, Len(sorted) - 1), e)
           \o <<sorted[Len(sorted)]>>
  ELSE Append(sorted, e)

RECURSIVE SortPrefix(_, _)
SortPrefix(d, n) ==
  IF n = 0 THEN <<>> ELSE InsertByTimestamp(SortPrefix(d, n - 1), d[n])

SortByTimestamp(d) == SortPrefix(d, Len(d))

\* loaded event lists: out of order, with equal timestamps, in order
InputShuffled ==
  << Ev(7200000, "ransomware", "ransomware",     3, 9, TRUE,  FALSE),
     Ev(0,       "port_scan",  "reconnaissance", 1, 3, FALSE, FALSE),
     Ev(3600000, "brute_force", "intrusion",     2, 6, TRUE,  FALSE) >>

InputTied ==
  << Ev(3600000, "brute_force", "intrusion",     2, 6, TRUE,  FALSE),
     Ev(0,       "port_scan",  "reconnaissance", 1, 3, FALSE, FALSE),
     Ev(3600000, "trojan",     "malware",        2, 7, TRUE,  FALSE) >>

InputLate ==
  << Ev(0,         "port_scan",  "reconnaissance", 1, 3, FALSE, FALSE),
     Ev(1800000,   "brute_force", "intrusion",     2, 6, TRUE,  FALSE),
     Ev(259200000, "ransomware", "ransomware",     5, 9, TRUE,  FALSE) >>

AttackInputs == {InputShuffled, InputTied, InputLate}

\* stages.findIndex(s => currentHour >= s.start && currentHour < s.end)
AttackFindStage(t) ==
  LET hits == {k \in 1..Len(attackStages) :
                 /\ t >= attackStages[k].start * HourMs
                 /\ t < attackStages[k].end * HourMs}
  IN IF hits = {} THEN -1
     ELSE (CHOOSE k \in hits : \A j \in hits : k <= j) - 1

\* createPacketFlow: one flow and one tween per event
AttackCreatePacketFlow(s, ev) ==
  [s EXCEPT !.activeFlows =
              Append(@, [ev |-> ev, run |-> s.run, first |-> TRUE, age |-> 0]),
            !.tweens =
              Append(@, [ev |-> ev, first |-> TRUE, run |-> s.run, pc |-> 1,
                         elapsed |-> 0, length |-> AttackTweenDuration])]

\* eventsToProcess.forEach(event => { event.processed = true; ... })
RECURSIVE AttackDispatchEach(_, _)
AttackDispatchEach(s, evs) ==
  IF Len(evs) = 0 THEN s
  ELSE LET ev == Head(evs)
           s1 == [s EXCEPT !.processed[ev] = TRUE,
                           !.handed[ev] = @ + 1,
                           !.log = Append(@, ev)]
       IN AttackDispatchEach(AttackCreatePacketFlow(s1, ev), Tail(evs))

\* this.data.filter(...) keeps the order of this.data
AttackProcessEvents(s, currentTimestamp) ==
  LET eventsToProcess ==
        SelectSeq([k \in 1..Len(data) |-> k],
                  LAMBDA k : /\ data[k].timestamp <= currentTimestamp
                             /\ ~s.processed[k])
  IN AttackDispatchEach(s, eventsToProcess)

AttackUpdateFlows(s, dt) ==
  LET aged == [k \in 1..Len(s.activeFlows) |->
                 [s.activeFlows[k] EXCEPT !.age = @ + dt]]
  IN [s EXCEPT !.activeFlows =
        SelectSeq(aged, LAMBDA f : ~(f.age > AttackFlowLifetime))]

\* update(deltaTime), deltaTime in ms: playbackSpeed simulated seconds per
\* real second
AttackUpdate(s, dt) ==
  IF ~s.isPlaying THEN s
  ELSE LET t == s.currentTime + dt * s.playbackSpeed
           s1 == IF t > duration
                   THEN [s EXCEPT !.currentTime = duration,
                                  !.isPlaying = FALSE]
                   ELSE [s EXCEPT !.currentTime = t]
           newStage == AttackFindStage(s1.currentTime)
           s2 == IF newStage # s1.currentStage /\ newStage >= 0
                   THEN [s1 EXCEPT !.currentStage = newStage,
                                   !.camera = <<"stage", newStage>>]
                   ELSE s1
           s3 == AttackProcessEvents(s2, startTime + s2.currentTime)
       IN AttackUpdateFlows(s3, dt)

AttackRestart(s) ==
  [s EXCEPT !.currentTime = 0,
            !.currentStage = 0,
            !.isPlaying = TRUE,
            !.activeFlows = <<>>,
            !.processed = [k \in 1..Len(data) |-> FALSE],
            !.handed = [k \in 1..Len(data) |-> 0],
            !.run = @ + 1]

\* the tween of some packet has run its 1.5 s: onComplete
AttackTweenDue ==
  \E k \in 1..Len(tweens) : tweens[k].elapsed >= tweens[k].length

AttackFrame(dt) ==
  /\ calls < MaxCalls
  /\ ~AttackTweenDue
  /\ \E s1 \in {AttackUpdate([St EXCEPT !.tweens = ElapseTweens(St, dt)],
                               dt)} :
       /\ Apply(s1)
       /\ lastOp' = [NoOp EXCEPT !.op = "update", !.dispatched = s1.log,
                                 !.dt = dt, !.played = isPlaying]
  /\ calls' = calls + 1
  /\ UNCHANGED <<data, sinceDispatch>>

AttackTweenComplete ==
  /\ \E k \in 1..Len(tweens) :
       /\ tweens[k].elapsed >= tweens[k].length
       /\ \A j \in 1..(k - 1) : tweens[j].elapsed < tweens[j].length
       /\ LET t == tweens[k]
              s1 == [St EXCEPT !.tweens = RemoveAt(@, k)]
          IN Apply(IF data[t.ev].success
                     THEN AddEffect(s1, Effect("impact", t, <<"dest", t.ev>>))
                     ELSE s1)
  /\ lastOp' = [NoOp EXCEPT !.op = "tween", !.kind = "complete"]
  /\ UNCHANGED <<data, calls, sinceDispatch>>

AttackTogglePlayback ==
  /\ calls < MaxCalls
  /\ Apply([St EXCEPT !.isPlaying = ~@])
  /\ lastOp' = [NoOp EXCEPT !.op = "togglePlayback"]
  /\ calls' = calls + 1
  /\ UNCHANGED <<data, sinceDispatch>>

AttackSetSpeed(speed) ==
  /\ calls < MaxCalls
  /\ Apply([St EXCEPT !.playbackSpeed = speed])
  /\ lastOp' = [NoOp EXCEPT !.op = "setSpeed"]
  /\ calls' = calls + 1
  /\ UNCHANGED <<data, sinceDispatch>>

AttackDoRestart ==
  /\ calls < MaxCalls
  /\ Apply(AttackRestart(St))
  /\ lastOp' = [NoOp EXCEPT !.op = "restart"]
  /\ calls' = calls + 1
  /\ UNCHANGED <<data, sinceDispatch>>

\* new AttackTimeline(scene, data, camera, controls)
InitAttack ==
  /\ data \in {SortByTimestamp(d) : d \in AttackInputs}
  /\ json = NoDocument
  /\ currentTime = 0
  /\ playbackSpeed = 3600
  /\ isPlaying = TRUE
  /\ currentStage = 0
  /\ lastEventProcessedTime = 0
  /\ lastProcessedEventType = "null"
  /\ processed = [k \in 1..Len(data) |-> FALSE]
  /\ activeFlows = <<>>
  /\ cveExplained = FALSE
  /\ criticalAccessShown = FALSE
  /\ ntdsShown = FALSE
  /\ otShown = FALSE
  /\ lastFollowedStage = -1
  /\ gsapPaused = FALSE
  /\ timers = <<>>
  /\ infoBoxes = {}
  /\ tweens = <<>>
  /\ effects = EmptyBag
  /\ camera = <<"initial", 0>>
  /\ run = 0
  /\ handed = [k \in 1..Len(data) |-> 0]
  /\ calls = 0
  /\ sinceDispatch = minEventInterval
  /\ lastOp = NoOp

NextAttack ==
  \/ \E dt \in AttackDtSet : AttackFrame(dt)
  \/ AttackTweenComplete
  \/ AttackTogglePlayback
  \/ \E speed \in AttackSpeeds : AttackSetSpeed(speed)
  \/ AttackDoRestart

SpecAttack == InitAttack /\ [][NextAttack]_vars

\* the dispatch order of a call is by ascending timestamp, without repeats
Ascending(d) ==
  \A i, j \in 1..Len(d) :
    i < j => d[i] # d[j] /\ data[d[i]].timestamp <= data[d[j]].timestamp

\* C38: in AttackTimeline, each update() with isPlaying true dispatches, in
\* ascending timestamp order, every event not yet processed whose timestamp
\* is at most the current simulated timestamp, and no event is dispatched
\* twice between two restarts.
C38_AttackTimelineDispatchesAllDue ==
  [][(IsUpdateStep /\ isPlaying) =>
       LET now == startTime + currentTime'
           due == {k \in Events : data[k].timestamp <= now /\ ~processed[k]}
           d == lastOp'.dispatched
       IN /\ {d[i] : i \in 1..Len(d)} = due
          /\ Ascending(d)
          /\ \A k \in Events : handed'[k] <= 1
          /\ \A k \in Events : processed'[k] <=> (processed[k] \/ k \in due)]_vars

\* C38 witness: after a restart, one update has dispatched again two events
\* that an update before the restart had dispatched, and a later event is
\* still to come.
C38_Witness ==
  /\ lastOp.op = "update"
  /\ run = 1
  /\ Len(lastOp.dispatched) >= 2
  /\ \A i \in 1..Len(lastOp.dispatched) :
       \E k \in 1..Len(tweens) :
         tweens[k].run = 0 /\ tweens[k].ev = lastOp.dispatched[i]
  /\ \E k \in Events : ~processed[k]
  /\ \A k \in Events : processed[k] => handed[k] = 1

----------------------------------------------------------------------------
(* The dataset loader (data-loader.js) and init() of main.js.  An event of *)
(* the document is a record of the fields it has; a timestamp of the       *)
(* document is an ISO string ([iso |-> ms]), a loaded one a Date (its ms). *)
(* severity is in whole points, confidence in hundredths.                  *)

MaxSeverity == 10
DefaultSeverity == 5
ConfidenceOne == 100
DefaultConfidence == 50
MinVolume == 1
DefaultVolume == 100

Max(a, b) == IF a >= b THEN a ELSE b
Min(a, b) == IF a <= b THEN a ELSE b

\* event[f] || d, for a number: undefined and 0 are falsy
NumberOr(event, f, d) ==
  IF f \in DOMAIN event /\ event[f] # 0 THEN event[f] ELSE d

\* event[f] || d, for a string: undefined and "" are falsy
StringOr(event, f, d) ==
  IF f \in DOMAIN event /\ event[f] # "" THEN event[f] ELSE d

\* event[f] || generateRandomIP()
IpOr(event, f, random) ==
  IF f \in DOMAIN event /\ event[f] # <<>> THEN event[f] ELSE random

\* new Date(event.timestamp || Date.now())
NewDate(event, now) ==
  IF "timestamp" \in DOMAIN event THEN event.timestamp.iso ELSE now

ValidateEvent(event, rnd) ==
  [timestamp |-> NewDate(event, rnd.now),
   severity |->
     Max(0, Min(MaxSeverity, NumberOr(event, "severity", DefaultSeverity))),
   category |-> StringOr(event, "category", "unknown"),
   source_ip |-> IpOr(event, "source_ip", rnd.src),
   destination_ip |-> IpOr(event, "destination_ip", rnd.dst),
   attack_type |-> StringOr(event, "attack_type", "unknown"),
   confidence |->
     Max(0, Min(ConfidenceOne,
                NumberOr(event, "confidence", DefaultConfidence))),
   data_volume |-> Max(MinVolume, NumberOr(event, "data_volume", DefaultVolume))]

\* processJSONData; an invalid document makes it throw
ProcessJSONData(doc, rnds, sample) ==
  CASE doc.kind \in {"array", "events"} ->
         IF Len(doc.events) > 0
           THEN [from |-> "json",
                 events |-> [k \in 1..Len(doc.events) |->
                               ValidateEvent(doc.events[k], rnds[k])]]
           ELSE [from |-> "sample", events |-> sample]
    [] OTHER -> [from |-> "throw", events |-> <<>>]

\* loadDataset: a response that is not JSON and a thrown error both end in
\* generateSampleData()
LoadDataset(doc, rnds, sample) ==
  IF doc.kind = "other" THEN [from |-> "sample", events |-> sample]
  ELSE LET loaded == ProcessJSONData(doc, rnds, sample)
       IN IF loaded.from = "throw"
            THEN [from |-> "sample", events |-> sample]
            ELSE loaded

\* what the random calls of one validateEvent can give
Rnds ==
  {[now |-> BaseTime + 5, src |-> IP(8, 8, 8, 8), dst |-> IP(10, 0, 1, 1)],
   [now |-> BaseTime + 7, src |-> IP(45, 76, 128, 0),
    dst |-> IP(192, 168, 100, 10)]}

\* generateSampleData(), cut down to two events
SampleData ==
  { << [timestamp |-> BaseTime, severity |-> 1, category |-> "benign",
        source_ip |-> IP(10, 0, 1, 1), destination_ip |-> IP(8, 8, 8, 8),
        attack_type |-> "dns", confidence |-> 90, data_volume |-> 64],
       [timestamp |-> BaseTime + 1000, severity |-> 7, category |-> "malware",
        source_ip |-> IP(8, 8, 8, 8), destination_ip |-> IP(10, 0, 1, 1),
        attack_type |-> "trojan", confidence |-> 60, data_volume |-> 900] >> }

Severities == {-1, 0, 3, 10, 12}
Confidences == {-10, 0, 50, 100, 120}

\* an event as the generator of the bundled dataset writes it
FullEvent(ts, sev, conf) ==
  [id |-> 1, timestamp |-> [iso |-> BaseTime + ts], severity |-> sev,
   category |-> "exploitation", technique |-> "T1190",
   source_ip |-> IP(45, 76, 128, 0), destination_ip |-> IP(192, 168, 100, 10),
   attack_type |-> "zero_day_exploit", confidence |-> conf,
   data_volume |-> 4096, stage |-> 1, success |-> TRUE,
   proxy_chain |-> <<IP(203, 119, 88, 0)>>,
   description |-> "CVE-2024-39717", tool |-> "custom_exploit",
   command |-> "POST /versa/vnms"]

\* an event with the numeric fields and an empty category only
BareEvent(ts, sev, conf) ==
  [timestamp |-> [iso |-> BaseTime + ts], severity |-> sev,
   confidence |-> conf, category |-> ""]

\* an event without severity, confidence and timestamp
MissingEvent == [category |-> "discovery", attack_type |-> "lotl_discovery"]

Documents ==
  {[kind |-> kind, events |-> <<e>>] :
     kind \in {"array", "events"},
     e \in {FullEvent(0, sev, conf) : sev \in Severities, conf \in Confidences}
           \cup {BareEvent(0, sev, conf) :
                   sev \in Severities, conf \in Confidences}
           \cup {MissingEvent}}
  \cup {[kind |-> "events",
         events |-> <<FullEvent(3600000, 9, 85), BareEvent(0, 3, 50)>>],
        [kind |-> "array", events |-> <<>>],
        [kind |-> "invalid", events |-> <<>>],
        [kind |-> "other", events |-> <<>>]}

\* init(): the document has been fetched
InitLoader ==
  /\ json \in Documents
  /\ data = <<>>
  /\ EngineFields

\* init(): const data = await loadDataset(...)
DoLoadDataset ==
  /\ lastOp.op = "init"
  /\ \E rnds \in [1..Len(json.events) -> Rnds], sample \in SampleData :
       \E loaded \in {LoadDataset(json, rnds, sample)} :
         /\ data' = loaded.events
         /\ lastOp' = [NoOp EXCEPT !.op = "loadDataset", !.kind = loaded.from]
  /\ UNCHANGED <<json, currentTime, playbackSpeed, isPlaying, currentStage,
                 lastEventProcessedTime, lastProcessedEventType, processed,
                 activeFlows, cveExplained, criticalAccessShown, ntdsShown,
                 otShown, lastFollowedStage, gsapPaused, timers, infoBoxes,
                 tweens, effects, camera, run, handed, calls, sinceDispatch>>

\* init(): timeline = new VoltTyphoonTimeline(scene, data, camera, controls)
DoConstruct ==
  /\ lastOp.op = "loadDataset"
  /\ data' = SortByTimestamp(data)
  /\ processed' = [k \in 1..Len(data) |-> FALSE]
  /\ handed' = [k \in 1..Len(data) |-> 0]
  /\ lastOp' = [NoOp EXCEPT !.op = "construct", !.kind = lastOp.kind]
  /\ UNCHANGED <<json, currentTime, playbackSpeed, isPlaying, currentStage,
                 lastEventProcessedTime, lastProcessedEventType,
                 activeFlows, cveExplained, criticalAccessShown, ntdsShown,
                 otShown, lastFollowedStage, gsapPaused, timers, infoBoxes,
                 tweens, effects, camera, run, calls, sinceDispatch>>

NextLoader == DoLoadDataset \/ DoConstruct

SpecLoader == InitLoader /\ [][NextLoader]_vars

\* the fields of an event record that the engine reads and the loader's
\* result is expected to carry
ConsumedFields ==
  {"stage", "success", "proxy_chain", "technique", "description", "tool",
   "command"}

\* C39: loadDataset keeps, for every event of the document, the fields
\* stage, success, proxy_chain, technique, description, tool and command as
\* they are in the document, and drops no event.
C39_LoadKeepsConsumedFields ==
  (lastOp.op = "loadDataset" /\ lastOp.kind = "json") =>
    /\ Len(data) = Len(json.events)
    /\ \A k \in 1..Len(json.events) :
         \A f \in ConsumedFields \cap DOMAIN json.events[k] :
           f \in DOMAIN data[k] /\ data[k][f] = json.events[k][f]

Clamp(x, lo, hi) == IF x < lo THEN lo ELSE IF x > hi THEN hi ELSE x

\* C40: validateEvent leaves a severity within 0..10 and a confidence within
\* 0..1 as they are, the bounds included, and maps a value out of range to
\* the nearest bound.
C40_ClampsSeverityAndConfidence ==
  (lastOp.op = "loadDataset" /\ lastOp.kind = "json") =>
    \A k \in 1..Len(data) :
      /\ "severity" \in DOMAIN json.events[k] =>
           data[k].severity = Clamp(json.events[k].severity, 0, MaxSeverity)
      /\ "confidence" \in DOMAIN json.events[k] =>
           data[k].confidence =
             Clamp(json.events[k].confidence, 0, ConfidenceOne)

====
